---- MODULE Spec2Model ----
(***************************************************************************)
(* Model of src/peanut_rgfw.c: the RGFW front end of the Peanut-GB core.   *)
(* The program is one sequential thread (main) whose position is pc; the   *)
(* emulation core calls back into gb_rom_read, gb_cart_ram_read,           *)
(* gb_cart_ram_write, lcd_draw_line and gb_error while gb_run_frame is in  *)
(* progress (pc = "frame").  The host (keyboard, window manager) is the    *)
(* environment.  peanut_gb.h and RGFW.h are the two libraries the program  *)
(* includes: what they do is modelled from the description of their        *)
(* interfaces.                                                             *)
(***************************************************************************)
EXTENDS Integers, Sequences, FiniteSets, TLC

\* ---------------------------------------------------------------- bounds
\* Largest number of host events (key transitions and others) explored.
MaxHostEvents == 2
\* Largest number of scanline callbacks of one frame in the model.
MaxLines == 1
\* Width of a source pixel row and of the window in the model: LCD_WIDTH of
\* the core (160, the length of the pixels argument of lcd_draw_line) scaled
\* down.
LcdWidth == 2
\* Largest size in bytes of the image file in the model.
MaxFileSize == 6

\* ------------------------------------------------------------- constants
\* Number of error kinds, the size of gb_err_str.
GB_INVALID_MAX == 5
\* Width in bits of the interlace and frame_skip fields of gb.direct when
\* they are declared as unsigned bit-fields.
FlagBits == 1
\* What a byte of the save buffer holds before the core first writes it:
\* malloc does not initialise the buffer.
Uninit == -1
\* The mask lcd_draw_line applies to a source pixel (line 114).
PixelMask == 3
\* The four colours of the palette of lcd_draw_line (line 111), lightest
\* first: 0xFFFFFF, 0xA5A5A5, 0x525252, 0x000000.
White == 16777215
LightGray == 10855845
DarkGray == 5395026
Black == 0
\* Source lines of the five exits of the process.
ExitUsage == 140
ExitLoad == 147
ExitInit == 157
ExitFatal == 100
ExitClose == 214

\* The eight joypad lines of gb.direct.joypad_bits.
Lines == {"a", "b", "select", "start", "right", "left", "up", "down"}

\* The key each line is bound to (lines 175-182).
Binding ==
    [l \in Lines |->
        CASE l = "a" -> "z"
          [] l = "b" -> "x"
          [] l = "select" -> "BackSpace"
          [] l = "start" -> "Return"
          [] l = "right" -> "Right"
          [] l = "left" -> "Left"
          [] l = "up" -> "Up"
          [] l = "down" -> "Down"]

\* The hotkeys of the inner switch (lines 184-196) and one unbound key.
HotKeys == {"r", "i", "o"}
Keys == {Binding[l] : l \in Lines} \cup HotKeys \cup {"q"}

\* The values a byte written by the core takes in the model.
ByteSamples == {255}

\* The save sizes gb_get_save_size reports in the model (bytes).
SaveSizes == {0, 1}

\* The argument counts explored: no, one and two positional arguments.
ArgcSamples == {1, 2, 3}

\* What gb_init returns (enum gb_init_error_e).
InitResults ==
    {"GB_INIT_NO_ERROR", "GB_INIT_CARTRIDGE_UNSUPPORTED", "GB_INIT_INVALID_CHECKSUM"}

\* How reading the image file goes: fopen fails, fread comes up short, the
\* whole file is read, or malloc has no memory for the buffer.
FileOutcomes == {"open_fail", "short_read", "full_read", "no_memory"}

\* The image file as read_rom_to_ram meets it: whether fopen succeeds, the
\* size ftell reports, the number of bytes fread has to deliver, and what
\* malloc returns for that size (NULL or a buffer).
FileOf(o) ==
    CASE o = "open_fail" ->
           [exists |-> FALSE, size |-> 0, nread |-> 0, malloc |-> "null"]
      [] o = "short_read" ->
           [exists |-> TRUE, size |-> 1, nread |-> 0, malloc |-> "live"]
      [] o = "full_read" ->
           [exists |-> TRUE, size |-> 1, nread |-> 1, malloc |-> "live"]
      [] o = "no_memory" ->
           [exists |-> TRUE, size |-> 1, nread |-> 1, malloc |-> "null"]

\* The image files of the main specification.
MainFiles == {FileOf(o) : o \in FileOutcomes}

\* Every image file of at most MaxFileSize bytes, fread having any number
\* of its bytes to deliver, malloc succeeding or not.
AllFiles ==
    {FileOf("open_fail")} \cup
    {f \in [exists : {TRUE}, size : 0 .. MaxFileSize, nread : 0 .. MaxFileSize,
            malloc : {"null", "live"}] : f.nread <= f.size}

\* What fread does when it has bytes to deliver and the buffer is NULL
\* (undefined): the copy faults and the process dies, or the read fails
\* ("Bad address") and fread delivers nothing.
NullReadOutcomes == {"fault", "efault"}

\* How the core's header declares the interlace and frame_skip fields of
\* gb.direct: one-bit unsigned fields ("bits"), which keep the low bit of
\* what is stored, or one-bit bool fields ("bool"), which keep whether what
\* is stored is non-zero.
FlagDecls == {"bits", "bool"}

\* The image addresses the core asks gb_rom_read for in the model: the
\* first byte, which every image that loaded has unless it is empty, and
\* the address just beyond the largest image, which none has.
RomAddrs == {0, MaxFileSize}

\* What a read beyond the end of the image does (undefined): it yields
\* whatever byte lies there, or it faults and the process dies.
RomReadOutcomes == {"junk", "fault"}

\* What a read beyond the end of the source row may yield, when it does
\* not fault: any byte.
JunkSamples == 0 .. 255

\* The columns of a source pixel row.
Cols == 0 .. LcdWidth - 1

\* The source row whose first pixel is v and whose pixels count up from it.
RowFrom(v) == [x \in Cols |-> (v + x) % 256]

\* The source rows of the renderer's specification: every pixel value
\* 0..255 in every column.
AllRows == {RowFrom(v) : v \in 0 .. 255}

\* The source row of the main specification.
MainRows == {RowFrom(6)}

\* The first row the core draws in a frame in the renderer's specification
\* (an interlaced frame skips row 0).
AllFirstRows == {0, 1}

\* The first row the core draws in a frame in the main specification.
MainFirstRows == {0}

\* The physical screen widths of the renderer's specification: narrower
\* than the window, as wide, wider.
AllScreens == {LcdWidth - 1, LcdWidth, LcdWidth + 1}

\* The screen width of the main specification.
MainScreens == {LcdWidth + 1}

VARIABLES
    pc,          \* position of main
    argc,        \* argument count of the invocation
    file,        \* the image file named by argv[1]
    screen,      \* physical width of the host's screen
    pixels,      \* the source row the core passes to lcd_draw_line
    firstRow,    \* the first row the core draws in a frame
    flagDecl,    \* how the header declares the two LCD flags
    load,        \* what read_rom_to_ram did, "none" before the call
    winW,        \* priv.win->r.w, 0 before the window exists
    screenWidth, \* priv.screenWidth
    fb,          \* priv.win->buffer: the cells written so far
    srcRead,     \* indexes of pixels[] read by the last lcd_draw_line call
    win,         \* priv.win: "none", "open", "closed"
    rom,         \* priv.rom: "null", "live", "freed"
    cart_ram,    \* priv.cart_ram: "null", "live", "freed"
    saveSize,    \* gb_get_save_size(&gb)
    ramData,     \* contents of the cart_ram buffer
    joypad,      \* gb.direct.joypad_bits
    interlace,   \* gb.direct.interlace
    frame_skip,  \* gb.direct.frame_skip
    keys,        \* host keys currently pressed
    queue,       \* host events not yet polled
    event,       \* priv.win->event, the event polled last
    closeReq,    \* the window was asked to close
    exitCode,    \* "none", "EXIT_SUCCESS", "EXIT_FAILURE"
    exitLine,    \* source line of the exit taken, 0 while running
    out,         \* what was printed: <<stream, text>> records
    log,         \* release calls made, in order
    faults,      \* memory faults: double frees, accesses after free
    line,        \* scanline callbacks of the frame in progress
    errCount,    \* gb_error invocations
    errKind,     \* gb_err of the last gb_error invocation, -1 if none
    resetCount,  \* gb_reset calls made from the hotkey switch
    rPressCount, \* key-pressed events of the reset key handled
    nHostEv      \* host events so far

vars ==
    <<pc, argc, file, screen, pixels, firstRow, flagDecl, load, winW,
      screenWidth, fb, srcRead, win, rom, cart_ram, saveSize, ramData, joypad,
      interlace, frame_skip, keys, queue, event, closeReq, exitCode, exitLine,
      out, log, faults, line, errCount, errKind, resetCount, rPressCount,
      nHostEv>>

\* The inputs of a run, fixed from the start.
inputVars == <<file, screen, pixels, firstRow, flagDecl>>
\* The window's geometry and framebuffer.
lcdVars == <<winW, screenWidth, fb, srcRead>>
\* The variables the host owns.
hostVars == <<keys, queue, closeReq, nHostEv>>
\* The fields of gb.direct the front end reads and writes.
directVars == <<joypad, interlace, frame_skip>>
\* The two owned buffers.
memVars == <<rom, cart_ram, saveSize, ramData, log, faults>>
\* Counters of what the loop did.
countVars == <<line, errCount, errKind, resetCount, rPressCount>>
\* How the process ended.
exitVars == <<exitCode, exitLine, out>>

NoEvent == [type |-> "none", keyCode |-> "none"]

\* read_rom_to_ram not called yet.
NoLoad ==
    [ptr |-> "none", size |-> 0, nread |-> 0, mallocs |-> 0, frees |-> <<>>,
     freed |-> 0, fopens |-> 0, fcloses |-> 0, died |-> FALSE]

\* The framebuffer with no cell written.
EmptyFb == [o \in {} |-> Black]

\* ------------------------------------------------------------ pure parts
\* RGFW_isPressedI: 1 when the key is down in the sampled host state.
RGFW_isPressedI(ks, k) == IF k \in ks THEN 1 ELSE 0

\* C's logical negation.
LNot(x) == IF x = 0 THEN 1 ELSE 0

\* C's bitwise complement of a flag stored back into the flag, lines 191
\* and 195.  The flag is promoted to int, so ~x is -x - 1; a field of
\* FlagBits unsigned bits keeps that value modulo 2^FlagBits, a bool field
\* keeps 1 when it is non-zero, and for x in {0, 1} it always is.
BitNot(x, decl) ==
    LET c == (-x) - 1 IN
    IF decl = "bool"
      THEN IF c = 0 THEN 0 ELSE 1
      ELSE c % (2 ^ FlagBits)

\* free(p): NULL is left alone, a live buffer becomes freed.
Free(p) == IF p = "live" THEN "freed" ELSE p

\* The fault free(p) raises, if any.
FreeFault(p, name) == IF p = "freed" THEN {<<"double_free", name>>} ELSE {}

\* The fault an access to buffer p raises, if any.
AccessFault(p, name) == IF p = "freed" THEN {<<"use_after_free", name>>} ELSE {}

\* -------------------------------------------------------------- process
\* exit(code) at source line ln: nothing is released by exit itself.
ExitProcess(code, ln) ==
    /\ pc' = "exited"
    /\ exitCode' = code
    /\ exitLine' = ln

Running == pc \notin {"exited", "crashed"}

\* The state before main's first statement, the inputs drawn from the sets
\* given.
InitWith(argcs, files, screens, rows, firsts, decls) ==
    /\ pc = "start"
    /\ argc \in argcs
    /\ file \in files
    /\ screen \in screens
    /\ pixels \in rows
    /\ firstRow \in firsts
    /\ flagDecl \in decls
    /\ load = NoLoad
    /\ winW = 0
    /\ screenWidth = 0
    /\ fb = EmptyFb
    /\ srcRead = {}
    /\ win = "none"
    /\ rom = "null"
    /\ cart_ram = "null"
    /\ saveSize = 0
    /\ ramData = <<>>
    /\ joypad = [l \in Lines |-> 0]
    /\ interlace = 0
    /\ frame_skip = 0
    /\ keys = {}
    /\ queue = <<>>
    /\ event = NoEvent
    /\ closeReq = FALSE
    /\ exitCode = "none"
    /\ exitLine = 0
    /\ out = <<>>
    /\ log = <<>>
    /\ faults = {}
    /\ line = 0
    /\ errCount = 0
    /\ errKind = -1
    /\ resetCount = 0
    /\ rPressCount = 0
    /\ nHostEv = 0

Init ==
    InitWith(ArgcSamples, MainFiles, MainScreens, MainRows, MainFirstRows,
             FlagDecls)

\* A window one column wider than the source row.
WindowWidthPadded == LcdWidth + 1

\* The width of the window main asks for, line 127: RGFW_RECT(0, 0,
\* LCD_WIDTH, LCD_HEIGHT), not resizable.
WindowWidth == LcdWidth

\* main, lines 127-129: the window is created first and the width of the
\* physical screen is cached.
CreateWindow ==
    /\ pc = "start"
    /\ win' = "open"
    /\ winW' = WindowWidth
    /\ screenWidth' = screen
    /\ pc' = "args"
    /\ UNCHANGED <<argc, inputVars, fb, srcRead, load, event, hostVars,
                   directVars, memVars, countVars, exitVars>>

\* main, lines 132-141: exactly one positional argument, or usage and exit.
CheckArgs ==
    /\ pc = "args"
    /\ IF argc = 2
         THEN /\ pc' = "load"
              /\ UNCHANGED exitVars
         ELSE /\ out' = Append(out, <<"stderr", "usage">>)
              /\ ExitProcess("EXIT_FAILURE", ExitUsage)
    /\ UNCHANGED <<argc, inputVars, lcdVars, load, win, event, hostVars,
                   directVars, memVars, countVars>>

\* read_rom_to_ram with free(rom) left out of the short-read path.
read_rom_to_ram_keeps_buffer(f, ub) ==
    IF ~f.exists
      THEN [ptr |-> "null", size |-> 0, nread |-> 0, mallocs |-> 0,
            frees |-> <<>>, freed |-> 0, fopens |-> 0, fcloses |-> 0,
            died |-> FALSE]
      ELSE LET p == f.malloc
               got == IF p = "live" THEN 1 ELSE 0
               undefined == p = "null" /\ f.nread > 0
               n == IF undefined THEN 0 ELSE f.nread
           IN  IF undefined /\ ub = "fault"
                 THEN [ptr |-> "null", size |-> 0, nread |-> 0, mallocs |-> 0,
                       frees |-> <<>>, freed |-> 0, fopens |-> 1,
                       fcloses |-> 0, died |-> TRUE]
                 ELSE IF n # f.size
                   THEN [ptr |-> "null", size |-> 0, nread |-> n,
                         mallocs |-> got, frees |-> <<>>, freed |-> 0,
                         fopens |-> 1, fcloses |-> 1, died |-> FALSE]
                   ELSE [ptr |-> p, size |-> IF p = "live" THEN f.size ELSE 0,
                         nread |-> n, mallocs |-> got, frees |-> <<>>,
                         freed |-> 0, fopens |-> 1, fcloses |-> 1,
                         died |-> FALSE]

\* read_rom_to_ram, lines 55-78: the pointer it returns, the size of the
\* buffer behind it, the count fread returned, and the calls it makes on the
\* way (buffers obtained from malloc, calls of free, buffers released,
\* files opened and closed).  The result of malloc is not tested (line
\* 67): a NULL goes to fread (line 69), which with bytes to deliver is
\* undefined and goes as ub says; with died the function does not return.
read_rom_to_ram(f, ub) ==
    IF ~f.exists
      THEN [ptr |-> "null", size |-> 0, nread |-> 0, mallocs |-> 0,
            frees |-> <<>>, freed |-> 0, fopens |-> 0, fcloses |-> 0,
            died |-> FALSE]
      ELSE LET p == f.malloc
               got == IF p = "live" THEN 1 ELSE 0
               undefined == p = "null" /\ f.nread > 0
               n == IF undefined THEN 0 ELSE f.nread
           IN  IF undefined /\ ub = "fault"
                 THEN [ptr |-> "null", size |-> 0, nread |-> 0, mallocs |-> 0,
                       frees |-> <<>>, freed |-> 0, fopens |-> 1,
                       fcloses |-> 0, died |-> TRUE]
                 ELSE IF n # f.size
                   THEN [ptr |-> "null", size |-> 0, nread |-> n,
                         mallocs |-> got, frees |-> <<"free_rom">>,
                         freed |-> got, fopens |-> 1, fcloses |-> 1,
                         died |-> FALSE]
                   ELSE [ptr |-> p, size |-> IF p = "live" THEN f.size ELSE 0,
                         nread |-> n, mallocs |-> got, frees |-> <<>>,
                         freed |-> 0, fopens |-> 1, fcloses |-> 1,
                         died |-> FALSE]

\* main, lines 143-148: load the image or report and exit.
LoadRom ==
    /\ pc = "load"
    /\ \E ub \in NullReadOutcomes :
          LET r == read_rom_to_ram(file, ub) IN
          /\ load' = r
          /\ rom' = r.ptr
          /\ log' = log \o r.frees
          /\ IF r.died
               THEN /\ pc' = "crashed"
                    /\ UNCHANGED exitVars
               ELSE IF r.ptr = "null"
                 THEN /\ out' = Append(out, <<"stdout", "strerror">>)
                      /\ ExitProcess("EXIT_FAILURE", ExitLoad)
                 ELSE /\ pc' = "init"
                      /\ UNCHANGED exitVars
    /\ UNCHANGED <<argc, inputVars, lcdVars, win, event, hostVars, directVars,
                   cart_ram, saveSize, ramData, faults, countVars>>

\* gb_rom_read, lines 27-31: p->rom[addr], with no bound on addr.  The
\* outcomes of the read of address addr of an image of size bytes behind
\* pointer p: the byte of the image, or beyond its end what is undefined.
gb_rom_read(p, size, addr) ==
    IF p = "live" /\ addr >= size THEN RomReadOutcomes ELSE {"byte"}

\* gb_init of the core: on success the context is initialised, which
\* leaves all eight input lines released (1).
GbInitJoypad == [l \in Lines |-> 1]

\* main, lines 150-158: initialise the context or report and exit.  gb_init
\* reads the image header through gb_rom_read, at addresses the header's
\* layout fixes whatever the size of the file: a read beyond the end of
\* the image may end the process there.
GbInit ==
    /\ pc = "init"
    /\ faults' = faults \cup AccessFault(rom, "rom")
    /\ \E addr \in RomAddrs :
          \E o \in gb_rom_read(rom, load.size, addr) :
             IF o = "fault"
               THEN /\ pc' = "crashed"
                    /\ UNCHANGED <<joypad, exitVars>>
               ELSE \E ret \in InitResults :
                      IF ret # "GB_INIT_NO_ERROR"
                        THEN /\ out' = Append(out, <<"stdout", "Error", ret>>)
                             /\ ExitProcess("EXIT_FAILURE", ExitInit)
                             /\ UNCHANGED joypad
                        ELSE /\ pc' = "alloc"
                             /\ joypad' = GbInitJoypad
                             /\ UNCHANGED exitVars
    /\ UNCHANGED <<argc, inputVars, lcdVars, load, win, event, hostVars,
                   interlace, frame_skip, rom,
                   cart_ram, saveSize, ramData, log, countVars>>

\* main, lines 160-167: allocate the save buffer (unchecked: malloc may
\* return NULL, and does so legitimately for size 0), gb_init_lcd clears
\* the two LCD flags.
AllocCartRam ==
    /\ pc = "alloc"
    /\ \E sz \in SaveSizes, p \in {"null", "live"} :
          /\ saveSize' = sz
          /\ cart_ram' = p
          /\ ramData' = IF p = "live" THEN [a \in 1 .. sz |-> Uninit] ELSE <<>>
    /\ interlace' = 0
    /\ frame_skip' = 0
    /\ pc' = "loop"
    /\ UNCHANGED <<argc, inputVars, lcdVars, load, win, event, hostVars,
                   joypad, rom, log, faults,
                   countVars, exitVars>>

\* ------------------------------------------------------------------ host
\* The host's key and pointer events are placed between two iterations:
\* the program looks at keys and queue only in PollEvent, so an event
\* arriving at any other point of the iteration is seen exactly as one
\* arriving at the next loop top.  The close request may come at any time.
HostKeyDown(k) ==
    /\ pc = "loop"
    /\ nHostEv < MaxHostEvents
    /\ k \notin keys
    /\ keys' = keys \cup {k}
    /\ queue' = Append(queue, [type |-> "keyPressed", keyCode |-> k])
    /\ nHostEv' = nHostEv + 1
    /\ UNCHANGED <<pc, argc, inputVars, lcdVars, load, win, event, closeReq,
                   directVars,
                   memVars, countVars, exitVars>>

HostKeyUp(k) ==
    /\ pc = "loop"
    /\ nHostEv < MaxHostEvents
    /\ k \in keys
    /\ keys' = keys \ {k}
    /\ queue' = Append(queue, [type |-> "keyReleased", keyCode |-> k])
    /\ nHostEv' = nHostEv + 1
    /\ UNCHANGED <<pc, argc, inputVars, lcdVars, load, win, event, closeReq,
                   directVars,
                   memVars, countVars, exitVars>>

\* An event that is neither a key press nor a key release.
HostOther ==
    /\ pc = "loop"
    /\ nHostEv < MaxHostEvents
    /\ queue' = Append(queue, [type |-> "other", keyCode |-> "none"])
    /\ nHostEv' = nHostEv + 1
    /\ UNCHANGED <<pc, argc, inputVars, lcdVars, load, win, event, keys,
                   closeReq, directVars,
                   memVars, countVars, exitVars>>

\* The user asks the window to close.
HostClose ==
    /\ Running
    /\ win = "open"
    /\ ~closeReq
    /\ closeReq' = TRUE
    /\ UNCHANGED <<pc, argc, inputVars, lcdVars, load, win, event, keys,
                   queue, nHostEv,
                   directVars, memVars, countVars, exitVars>>

\* ------------------------------------------------------------- the loop
\* RGFW_window_shouldClose, as the loop condition reads it.
RGFW_window_shouldClose == closeReq

\* The loop condition replaced by a constant: the loop never ends.
LoopCheckIgnoresClose ==
    /\ pc = "loop"
    /\ pc' = "event"
    /\ UNCHANGED <<argc, inputVars, lcdVars, load, win, event, hostVars,
                   directVars, memVars, countVars, exitVars>>

\* The loop condition with the comparison to 0 dropped.
LoopCheckInverted ==
    /\ pc = "loop"
    /\ pc' = IF RGFW_window_shouldClose THEN "event" ELSE "closing"
    /\ UNCHANGED <<argc, inputVars, lcdVars, load, win, event, hostVars,
                   directVars, memVars, countVars,
                   exitVars>>

\* main, line 169: the loop condition.
LoopCheck ==
    /\ pc = "loop"
    /\ pc' = IF RGFW_window_shouldClose THEN "closing" ELSE "event"
    /\ UNCHANGED <<argc, inputVars, lcdVars, load, win, event, hostVars,
                   directVars, memVars, countVars,
                   exitVars>>

\* The assignments with the last one (line 182, down) left out.
JoypadUpdatePartial(old, ks) ==
    [l \in Lines |->
        IF l = "down" THEN old[l] ELSE LNot(RGFW_isPressedI(ks, Binding[l]))]

\* main, lines 175-182: all eight lines are assigned from the key state.
JoypadUpdate(old, ks) ==
    [l \in Lines |-> LNot(RGFW_isPressedI(ks, Binding[l]))]

\* gb_reset of the core: reinitialises the context; the input lines go back
\* to released, the LCD flags are not touched.
gb_reset(jp) == [l \in Lines |-> 1]

\* The handler with the switch on the event type left out: the case body
\* runs for every polled event.
HandleEventAnyType(e, jp, il, fs, ks, decl) ==
    LET sampled == JoypadUpdate(jp, ks) IN
    CASE e.keyCode = "r" ->
           [joypad |-> gb_reset(sampled), interlace |-> il,
            frame_skip |-> fs, resets |-> 1]
      [] e.keyCode = "i" ->
           [joypad |-> sampled, interlace |-> BitNot(il, decl),
            frame_skip |-> fs, resets |-> 0]
      [] e.keyCode = "o" ->
           [joypad |-> sampled, interlace |-> il,
            frame_skip |-> BitNot(fs, decl), resets |-> 0]
      [] OTHER ->
           [joypad |-> sampled, interlace |-> il,
            frame_skip |-> fs, resets |-> 0]

\* main, lines 171-201: what one polled event does to gb.direct.  Both event
\* types share one case body, so the hotkey switch runs on presses and on
\* releases alike.
HandleEvent(e, jp, il, fs, ks, decl) ==
    IF e.type \in {"keyPressed", "keyReleased"}
      THEN LET sampled == JoypadUpdate(jp, ks) IN
           CASE e.keyCode = "r" ->
                  [joypad |-> gb_reset(sampled), interlace |-> il,
                   frame_skip |-> fs, resets |-> 1]
             [] e.keyCode = "i" ->
                  [joypad |-> sampled, interlace |-> BitNot(il, decl),
                   frame_skip |-> fs, resets |-> 0]
             [] e.keyCode = "o" ->
                  [joypad |-> sampled, interlace |-> il,
                   frame_skip |-> BitNot(fs, decl), resets |-> 0]
             [] OTHER ->
                  [joypad |-> sampled, interlace |-> il,
                   frame_skip |-> fs, resets |-> 0]
      ELSE [joypad |-> jp, interlace |-> il, frame_skip |-> fs, resets |-> 0]

\* main, lines 170-202: RGFW_window_checkEvent takes at most one event off
\* the queue and the switch handles it.
PollEvent ==
    /\ pc = "event"
    /\ IF queue = <<>>
         THEN UNCHANGED <<event, queue, directVars, resetCount, rPressCount>>
         ELSE LET e == Head(queue)
                  h == HandleEvent(e, joypad, interlace, frame_skip, keys,
                                   flagDecl)
              IN  /\ event' = e
                  /\ queue' = Tail(queue)
                  /\ joypad' = h.joypad
                  /\ interlace' = h.interlace
                  /\ frame_skip' = h.frame_skip
                  /\ resetCount' = resetCount + h.resets
                  /\ rPressCount' =
                        IF e = [type |-> "keyPressed", keyCode |-> "r"]
                          THEN rPressCount + 1 ELSE rPressCount
    /\ pc' = "run"
    /\ UNCHANGED <<argc, inputVars, lcdVars, load, win, keys, closeReq,
                   nHostEv, memVars,
                   line, errCount, errKind, exitVars>>

\* main, line 205: gb_run_frame is entered.
RunFrameCall ==
    /\ pc = "run"
    /\ line' = 0
    /\ pc' = "frame"
    /\ UNCHANGED <<argc, inputVars, lcdVars, load, win, event, hostVars,
                   directVars, memVars,
                   errCount, errKind, resetCount, rPressCount, exitVars>>

\* ---------------------------------------------- callbacks of gb_run_frame
\* gb_rom_read called by the core during a frame, lines 27-31.  The core
\* addresses the image by what its header declares, not by the size of the
\* file: a read beyond the end of the image yields some byte and the frame
\* goes on, or the process dies in the callback.
CbRomRead ==
    /\ pc = "frame"
    /\ faults' = faults \cup AccessFault(rom, "rom")
    /\ \E addr \in RomAddrs :
          \E o \in gb_rom_read(rom, load.size, addr) :
             pc' = IF o = "fault" THEN "crashed" ELSE pc
    /\ UNCHANGED <<argc, inputVars, lcdVars, load, win, event, hostVars,
                   directVars, rom, cart_ram,
                   saveSize, ramData, log, countVars, exitVars>>

\* gb_cart_ram_read, lines 36-40.  The core only passes addresses below the
\* save size.  Indexing a NULL cart_ram is undefined: the process may die
\* there or go on.
CbRamRead ==
    /\ pc = "frame"
    /\ \E addr \in 1 .. saveSize :
          IF cart_ram = "null"
            THEN /\ pc' \in {"crashed", "frame"}
                 /\ UNCHANGED faults
            ELSE /\ faults' = faults \cup AccessFault(cart_ram, "cart_ram")
                 /\ UNCHANGED pc
    /\ UNCHANGED <<argc, inputVars, lcdVars, load, win, event, hostVars,
                   directVars, rom, cart_ram,
                   saveSize, ramData, log, countVars, exitVars>>

\* gb_cart_ram_write, lines 45-50.
CbRamWrite ==
    /\ pc = "frame"
    /\ \E addr \in 1 .. saveSize, val \in ByteSamples :
          IF cart_ram = "null"
            THEN /\ pc' \in {"crashed", "frame"}
                 /\ UNCHANGED <<faults, ramData>>
            ELSE /\ faults' = faults \cup AccessFault(cart_ram, "cart_ram")
                 /\ ramData' = IF cart_ram = "live"
                                 THEN [ramData EXCEPT ![addr] = val]
                                 ELSE ramData
                 /\ UNCHANGED pc
    /\ UNCHANGED <<argc, inputVars, lcdVars, load, win, event, hostVars,
                   directVars, rom, cart_ram,
                   saveSize, log, countVars, exitVars>>

\* C's bitwise and of two non-negative integers.
RECURSIVE BitAnd(_, _)
BitAnd(a, b) ==
    IF a = 0 \/ b = 0
      THEN 0
      ELSE (a % 2) * (b % 2) + 2 * BitAnd(a \div 2, b \div 2)

\* lcd_draw_line, line 111: the palette, indexed from 1 here.
Palette == <<White, LightGray, DarkGray, Black>>

\* palette[pixels[x] & 3] with the palette written darkest first.
PixelColourDarkFirst(v) ==
    <<Black, DarkGray, LightGray, White>>[BitAnd(v, PixelMask) + 1]

\* lcd_draw_line, line 114: palette[pixels[x] & 3].
PixelColour(v) == Palette[BitAnd(v, PixelMask) + 1]

\* lcd_draw_line, lines 113-114: the loop from column x up to the window
\* width w, storing into cell stride * ln + x.  A read of px beyond its
\* length is undefined: here it yields the byte junk[x].
RECURSIVE DrawCols(_, _, _, _, _, _, _)
DrawCols(buf, px, ln, w, stride, junk, x) ==
    IF x >= w
      THEN buf
      ELSE LET v == IF x \in DOMAIN px THEN px[x] ELSE junk[x]
               o == stride * ln + x
               b == [c \in DOMAIN buf \cup {o} |->
                        IF c = o THEN PixelColour(v) ELSE buf[c]]
           IN  DrawCols(b, px, ln, w, stride, junk, x + 1)

\* lcd_draw_line with the loop running to the stride (the cached screen
\* width) instead of the window width.
lcd_draw_line_to_screen_width(buf, px, ln, w, stride, junk) ==
    [fb |-> DrawCols(buf, px, ln, stride, stride,
                     [x \in 0 .. stride - 1 |->
                         IF x \in DOMAIN junk THEN junk[x] ELSE 0], 0),
     reads |-> 0 .. stride - 1]

\* lcd_draw_line, lines 107-116: the framebuffer after the call and the
\* indexes of the source row it read.
lcd_draw_line(buf, px, ln, w, stride, junk) ==
    [fb |-> DrawCols(buf, px, ln, w, stride, junk, 0),
     reads |-> 0 .. w - 1]

\* lcd_draw_line, lines 107-116: one scanline of the frame in progress; the
\* core passes the rows in increasing order from firstRow on.  The columns
\* of the window beyond the source row are read out of bounds: each such
\* read yields some byte, or faults, and then the process dies with the
\* columns before it stored.
CbDrawLine ==
    /\ pc = "frame"
    /\ line < MaxLines
    /\ LET oob == (0 .. winW - 1) \ DOMAIN pixels IN
          \/ \E junk \in [oob -> JunkSamples] :
                LET r == lcd_draw_line(fb, pixels, firstRow + line, winW,
                                       screenWidth, junk) IN
                /\ fb' = r.fb
                /\ srcRead' = r.reads
                /\ line' = line + 1
                /\ UNCHANGED pc
          \/ \E k \in oob :
                \E junk \in [{x \in oob : x < k} -> JunkSamples] :
                   LET r == lcd_draw_line(fb, pixels, firstRow + line, k,
                                          screenWidth, junk) IN
                   /\ fb' = r.fb
                   /\ srcRead' = r.reads \cup {k}
                   /\ pc' = "crashed"
                   /\ UNCHANGED line
    /\ UNCHANGED <<argc, inputVars, winW, screenWidth, load, win, event,
                   hostVars, directVars, memVars, errCount, errKind,
                   resetCount, rPressCount, exitVars>>

\* gb_error with the exit left out: it frees and returns to the core.
gb_error_returns(kind) ==
    /\ out' = Append(out, <<"stderr", "Error", kind>>)
    /\ cart_ram' = Free(cart_ram)
    /\ rom' = Free(rom)
    /\ log' = log \o <<"free_cart_ram", "free_rom">>
    /\ faults' = faults \cup FreeFault(cart_ram, "cart_ram") \cup FreeFault(rom, "rom")
    /\ UNCHANGED <<pc, exitCode, exitLine, win>>

\* gb_error that frees and then leaves through main's shutdown code
\* instead of exiting on the spot.
gb_error_then_close(kind) ==
    /\ out' = Append(out, <<"stderr", "Error", kind>>)
    /\ cart_ram' = Free(cart_ram)
    /\ rom' = Free(rom)
    /\ log' = log \o <<"free_cart_ram", "free_rom">>
    /\ faults' = faults \cup FreeFault(cart_ram, "cart_ram") \cup FreeFault(rom, "rom")
    /\ pc' = "closing"
    /\ UNCHANGED <<exitCode, exitLine, win>>

\* gb_error with free(priv->cart_ram) left out.
gb_error_leaks_ram(kind) ==
    /\ out' = Append(out, <<"stderr", "Error", kind>>)
    /\ rom' = Free(rom)
    /\ log' = log \o <<"free_rom">>
    /\ faults' = faults \cup FreeFault(rom, "rom")
    /\ ExitProcess("EXIT_FAILURE", ExitFatal)
    /\ UNCHANGED <<win, cart_ram>>

\* gb_error, lines 83-101: report, free both buffers, exit.
gb_error(kind) ==
    /\ out' = Append(out, <<"stderr", "Error", kind>>)
    /\ cart_ram' = Free(cart_ram)
    /\ rom' = Free(rom)
    /\ log' = log \o <<"free_cart_ram", "free_rom">>
    /\ faults' = faults \cup FreeFault(cart_ram, "cart_ram") \cup FreeFault(rom, "rom")
    /\ ExitProcess("EXIT_FAILURE", ExitFatal)
    /\ UNCHANGED win

\* The core reports one of its fatal errors during a frame.
CbError ==
    /\ pc = "frame"
    /\ \E kind \in 0 .. GB_INVALID_MAX - 1 :
          /\ errCount' = errCount + 1
          /\ errKind' = kind
          /\ gb_error(kind)
    /\ UNCHANGED <<argc, inputVars, lcdVars, load, event, hostVars,
                   directVars, saveSize, ramData,
                   line, resetCount, rPressCount>>

\* gb_run_frame returns and main goes back to the loop condition without
\* presenting.
RunFrameReturnSkipsPresent ==
    /\ pc = "frame"
    /\ pc' = "loop"
    /\ line' = 0
    /\ UNCHANGED <<argc, inputVars, lcdVars, load, win, event, hostVars,
                   directVars, memVars, errCount, errKind, resetCount,
                   rPressCount, exitVars>>

\* gb_run_frame returns to main.
RunFrameReturn ==
    /\ pc = "frame"
    /\ pc' = "present"
    /\ line' = 0
    /\ UNCHANGED <<argc, inputVars, lcdVars, load, win, event, hostVars,
                   directVars, memVars, errCount, errKind, resetCount,
                   rPressCount, exitVars>>

\* The presentation followed by a test of the close request that leaves
\* the loop on the spot.
SwapBuffersBreaksOnClose ==
    /\ pc = "present"
    /\ pc' = IF closeReq THEN "closing" ELSE "loop"
    /\ UNCHANGED <<argc, inputVars, lcdVars, load, win, event, hostVars,
                   directVars, memVars, line, errCount, errKind, resetCount,
                   rPressCount, exitVars>>

\* main, line 207: RGFW_window_swapBuffers.
SwapBuffers ==
    /\ pc = "present"
    /\ pc' = "loop"
    /\ UNCHANGED <<argc, inputVars, lcdVars, load, win, event, hostVars,
                   directVars, memVars,
                   line, errCount, errKind, resetCount, rPressCount, exitVars>>

\* The shutdown code with the buffers freed before the window is closed.
ClosingFreesFirst ==
    /\ pc = "closing"
    /\ win' = "closed"
    /\ cart_ram' = Free(cart_ram)
    /\ rom' = Free(rom)
    /\ log' = log \o <<"free_cart_ram", "free_rom", "window_close">>
    /\ faults' = faults \cup FreeFault(cart_ram, "cart_ram") \cup FreeFault(rom, "rom")
    /\ ExitProcess("EXIT_SUCCESS", ExitClose)
    /\ UNCHANGED <<argc, inputVars, lcdVars, load, event, hostVars,
                   directVars, saveSize, ramData,
                   countVars, out>>

\* main, lines 210-214: close the window, free both buffers, return.
Closing ==
    /\ pc = "closing"
    /\ win' = "closed"
    /\ cart_ram' = Free(cart_ram)
    /\ rom' = Free(rom)
    /\ log' = log \o <<"window_close", "free_cart_ram", "free_rom">>
    /\ faults' = faults \cup FreeFault(cart_ram, "cart_ram") \cup FreeFault(rom, "rom")
    /\ ExitProcess("EXIT_SUCCESS", ExitClose)
    /\ UNCHANGED <<argc, inputVars, lcdVars, load, event, hostVars,
                   directVars, saveSize, ramData,
                   countVars, out>>

Next ==
    \/ CreateWindow
    \/ CheckArgs
    \/ LoadRom
    \/ GbInit
    \/ AllocCartRam
    \/ \E k \in Keys : HostKeyDown(k)
    \/ \E k \in Keys : HostKeyUp(k)
    \/ HostOther
    \/ HostClose
    \/ LoopCheck
    \/ PollEvent
    \/ RunFrameCall
    \/ CbRomRead
    \/ CbRamRead
    \/ CbRamWrite
    \/ CbDrawLine
    \/ CbError
    \/ RunFrameReturn
    \/ SwapBuffers
    \/ Closing

Spec == Init /\ [][Next]_vars

\* main is sequential code: each of its steps that can be taken is taken,
\* and a call of gb_run_frame that does not end in gb_error returns.  The
\* host and the callbacks of the core are under no obligation.
Fairness ==
    /\ WF_vars(CreateWindow)
    /\ WF_vars(CheckArgs)
    /\ WF_vars(LoadRom)
    /\ WF_vars(GbInit)
    /\ WF_vars(AllocCartRam)
    /\ WF_vars(LoopCheck)
    /\ WF_vars(PollEvent)
    /\ WF_vars(RunFrameCall)
    /\ WF_vars(RunFrameReturn)
    /\ WF_vars(SwapBuffers)
    /\ WF_vars(Closing)
FairSpec == Spec /\ Fairness

\* The image loader on every file of AllFiles: the start of main up to the
\* return of read_rom_to_ram.
LoadInit ==
    InitWith({2}, AllFiles, MainScreens, MainRows, MainFirstRows, {"bits"})
LoadNext ==
    \/ CreateWindow
    \/ CheckArgs
    \/ LoadRom
LoadSpec == LoadInit /\ [][LoadNext]_vars

\* The renderer on every source row of AllRows and every screen width of
\* AllScreens: main with a host that raises no event and a core that
\* reports no error.
RenderInit ==
    InitWith({2}, {FileOf("full_read")}, AllScreens, AllRows, AllFirstRows,
             {"bits"})
RenderNext ==
    \/ CreateWindow
    \/ CheckArgs
    \/ LoadRom
    \/ GbInit
    \/ AllocCartRam
    \/ LoopCheck
    \/ PollEvent
    \/ RunFrameCall
    \/ CbDrawLine
    \/ RunFrameReturn
    \/ SwapBuffers
RenderSpec == RenderInit /\ [][RenderNext]_vars

\* --------------------------------------------------------------- claims
\* Number of calls of the release named n made so far.
Calls(n) == Cardinality({i \in DOMAIN log : log[i] = n})

KeyEventTypes == {"keyPressed", "keyReleased"}

\* The step of PollEvent that takes event e off the queue.
Handles(e) ==
    pc = "event" /\ pc' = "run" /\ queue # <<>> /\ Head(queue) = e

\* The step of PollEvent that takes some key event off the queue.
HandlesKeyEvent ==
    pc = "event" /\ pc' = "run" /\ queue # <<>> /\ Head(queue).type \in KeyEventTypes

\* C1: on every exit path each of rom and cart_ram that was allocated has
\* been released when the process terminates.
C1_ReleasedOnEveryExit ==
    pc = "exited" => rom # "live" /\ cart_ram # "live"

\* C2: neither buffer is released more than once, no callback accesses a
\* buffer after its release, and the release of gb_error and the release of
\* the shutdown code never both happen.
C2_ReleasedOnceNeverUsedAfter ==
    /\ faults = {}
    /\ Calls("free_rom") <= 1
    /\ Calls("free_cart_ram") <= 1
    /\ ~(errCount > 0 /\ Calls("window_close") > 0)
    /\ (rom = "freed" \/ cart_ram = "freed") => pc = "exited"

\* C2's case: the core wrote the save buffer, then raised a fatal error, and
\* both buffers were released once.
C2_Witness ==
    /\ pc = "exited"
    /\ errCount = 1
    /\ rom = "freed"
    /\ cart_ram = "freed"
    /\ ramData = <<255>>
    /\ log = <<"free_cart_ram", "free_rom">>

\* C3: invoked with zero or with two or more positional arguments, the
\* program prints usage to standard error and exits with failure, and at
\* that exit no window is open and no window, image buffer or save buffer
\* has been allocated.
C3_UsageExitHoldsNothing ==
    (argc # 2 /\ pc = "exited") =>
        /\ out = << <<"stderr", "usage">> >>
        /\ exitCode = "EXIT_FAILURE"
        /\ win = "none"
        /\ rom = "null"
        /\ cart_ram = "null"

\* C4: the process exits with success only through the shutdown code, which
\* is entered only when the loop-top check saw the close request; it exits
\* with failure on a bad argument count, a failed image load, a failed
\* gb_init and any gb_error call; there is no other exit.
C4_ExitCodes ==
    /\ pc = "closing" => closeReq /\ exitCode = "none"
    /\ pc = "exited" =>
          \/ /\ exitCode = "EXIT_SUCCESS"
             /\ exitLine = ExitClose
             /\ closeReq
             /\ argc = 2 /\ rom = "freed" /\ errCount = 0
          \/ /\ exitCode = "EXIT_FAILURE"
             /\ \/ exitLine = ExitUsage /\ argc # 2
                \/ exitLine = ExitLoad /\ argc = 2 /\ rom = "null"
                \/ exitLine = ExitInit /\ argc = 2 /\ rom = "live"
                       /\ out = << <<"stdout", "Error", out[1][3]>> >>
                       /\ out[1][3] \in InitResults \ {"GB_INIT_NO_ERROR"}
                \/ exitLine = ExitFatal /\ errCount = 1
    /\ (argc # 2 /\ pc \notin {"start", "args"}) =>
          pc = "exited" /\ exitLine = ExitUsage
    /\ errCount > 0 => pc = "exited" /\ exitLine = ExitFatal
    /\ pc # "exited" => exitCode = "none" /\ exitLine = 0

\* C4's case: a close request seen at the loop top after a frame was
\* presented, ending in a successful exit.
C4_Witness ==
    /\ pc = "exited"
    /\ exitCode = "EXIT_SUCCESS"
    /\ closeReq
    /\ fb # EmptyFb
    /\ event.type = "keyPressed"

\* C5 as stated: after the handling of any key-pressed or key-released
\* event every joypad line is the negation of its binding's pressed state
\* as sampled at that event.
C5_LinesNegateKeysAfterAnyKeyEvent ==
    [][HandlesKeyEvent =>
         \A l \in Lines : joypad'[l] = LNot(RGFW_isPressedI(keys, Binding[l]))]_vars

\* C5 amended: after the handling of a key event of any key but the reset
\* hotkey every joypad line is the negation of its binding's pressed state
\* as sampled at that event, whatever the lines held before; on an event of
\* the reset hotkey the reset that follows the sampling leaves all eight
\* lines at 1.
C5_LinesNegateKeysUnlessReset ==
    [][HandlesKeyEvent =>
         \A l \in Lines :
            joypad'[l] = IF Head(queue).keyCode = "r"
                           THEN 1
                           ELSE LNot(RGFW_isPressedI(keys, Binding[l]))]_vars

\* C5's case: the press of Down was handled while z is held too, and the
\* lines of both read 0 while the other six read 1.
C5_Witness ==
    /\ pc = "run"
    /\ event = [type |-> "keyPressed", keyCode |-> "Down"]
    /\ queue = <<>>
    /\ keys = {"z", "Down"}
    /\ joypad["down"] = 0
    /\ joypad["a"] = 0
    /\ \A l \in Lines \ {"a", "down"} : joypad[l] = 1

\* C6: the number of gb_reset calls equals the number of key-pressed events
\* of the reset key handled; releases and held frames add none.
C6_ResetOncePerPress ==
    resetCount = rPressCount

\* C7: interlace and frame_skip are each complemented by a step exactly when
\* that step handles a press of their hotkey; release events, other keys and
\* every other step leave them as they are.
C7_FlagsToggleOnPressOnly ==
    [][/\ interlace' # interlace <=> Handles([type |-> "keyPressed", keyCode |-> "i"])
       /\ frame_skip' # frame_skip <=> Handles([type |-> "keyPressed", keyCode |-> "o"])]_vars

\* C8: gb_error does not return: the step that invokes it ends the process,
\* and no step of the program (run-frame call, scanline, presentation, event
\* handling, second invocation) follows it, whatever the error kind.
C8_ErrorHandlerNeverReturns ==
    [][/\ errCount' > 0 => pc' = "exited"
       /\ errCount > 0 =>
            UNCHANGED <<pc, win, event, queue, directVars, memVars, countVars,
                        exitVars>>]_vars

\* C8's case: the last error kind raised after a scanline of the frame.
C8_Witness ==
    /\ errCount = 1
    /\ errKind = GB_INVALID_MAX - 1
    /\ line > 0
    /\ pc = "exited"

\* C9: gb_error releases cart_ram and rom, leaves the window alone, and
\* ends the process with a failure status.
C9_ErrorHandlerReleasesAndFails ==
    errCount > 0 =>
        /\ pc = "exited"
        /\ exitCode = "EXIT_FAILURE"
        /\ exitLine = ExitFatal
        /\ log = <<"free_cart_ram", "free_rom">>
        /\ rom = "freed"
        /\ cart_ram \in {"freed", "null"}
        /\ win = "open"
        /\ out = << <<"stderr", "Error", errKind>> >>

\* C9's case: an invalid read reported with both buffers allocated.
C9_Witness ==
    /\ errCount = 1
    /\ errKind = 2
    /\ rom = "freed"
    /\ cart_ram = "freed"
    /\ win = "open"
    /\ exitCode = "EXIT_FAILURE"

\* C10: the shutdown code releases the window, then cart_ram, then rom, each
\* once, and then exits with success; nothing was released before it.
C10_ClosingOrder ==
    /\ pc = "closing" => log = <<>> /\ win = "open" /\ rom = "live"
    /\ exitCode = "EXIT_SUCCESS" =>
          /\ log = <<"window_close", "free_cart_ram", "free_rom">>
          /\ win = "closed"
          /\ rom = "freed"
          /\ cart_ram \in {"freed", "null"}
          /\ pc = "exited"

\* C10's case: a graceful close with both buffers allocated.
C10_Witness ==
    /\ exitCode = "EXIT_SUCCESS"
    /\ cart_ram = "freed"
    /\ rom = "freed"
    /\ win = "closed"
    /\ Len(log) = 3

\* C11: the image load is all-or-nothing.  read_rom_to_ram returns a buffer
\* only when as many bytes as the file holds were read into a buffer of
\* exactly that size; when the file cannot be opened it fails having
\* allocated nothing; when fewer bytes were read it has freed the buffer
\* and closed the file when it returns failure; a failed load leaves no
\* allocation and no open file behind.
C11_LoadAllOrNothing ==
    load # NoLoad =>
        /\ pc = "init" => rom = load.ptr
        /\ load.ptr = "live" =>
              /\ file.exists
              /\ load.nread = file.size
              /\ load.size = file.size
              /\ load.mallocs = 1
              /\ load.frees = <<>>
              /\ ~load.died
        /\ ~file.exists =>
              /\ load.ptr = "null"
              /\ load.mallocs = 0
              /\ load.fopens = 0
        /\ (file.exists /\ ~load.died /\ load.nread < file.size) =>
              /\ load.ptr = "null"
              /\ load.frees = <<"free_rom">>
              /\ load.freed = load.mallocs
              /\ load.fcloses = 1
        /\ (load.ptr = "null" /\ ~load.died) =>
              /\ load.mallocs = load.freed
              /\ load.fopens = load.fcloses
              /\ pc = "exited"
              /\ exitLine = ExitLoad
        /\ load.died =>
              /\ file.malloc = "null"
              /\ load.ptr = "null"
              /\ load.mallocs = 0
              /\ pc = "crashed"

\* C11's case: a file of several bytes of which fread delivered some but
\* not all, so the load failed after the buffer was allocated.
C11_Witness ==
    /\ load # NoLoad
    /\ file.size > 1
    /\ load.nread > 0
    /\ load.nread < file.size
    /\ load.ptr = "null"
    /\ load.mallocs = 1
    /\ load.freed = 1

\* The step of CbDrawLine: lcd_draw_line is called for row `line`.
DrawsLine == pc = "frame" /\ pc' = "frame" /\ line' = line + 1

\* The palette colour the claim assigns to a source value by its low two
\* bits.
ColourOfLowBits(v) ==
    CASE v % 4 = 0 -> 16777215
      [] v % 4 = 1 -> 10855845
      [] v % 4 = 2 -> 5395026
      [] v % 4 = 3 -> 0

\* C12: for every source pixel value 0..255 the renderer stores the palette
\* colour selected by the value's low two bits, in the order 0xFFFFFF,
\* 0xA5A5A5, 0x525252, 0x000000; values equal in their low two bits give the
\* same stored pixel.
C12_PaletteByLowTwoBits ==
    [][DrawsLine =>
          \A x \in Cols :
              fb'[screenWidth * (firstRow + line) + x] =
                  ColourOfLowBits(pixels[x])]_vars

\* C12's case: a row holding 254 and 255 was drawn, the high bits ignored.
C12_Witness ==
    /\ pc = "frame"
    /\ line = 1
    /\ firstRow = 0
    /\ pixels[0] = 254
    /\ fb[0] = 5395026
    /\ fb[1] = 0

\* The positions of main inside the loop, from the check of the close
\* request to the presentation.
LoopPcs == {"loop", "event", "run", "frame", "present"}

\* C13: every host event pending when an iteration starts has been taken
\* off the queue and handled when run-one-frame is called, so none is left
\* pending across a frame.  (The host raises key and other events between
\* iterations only, so the queue at the call is what was pending at the
\* start less what the iteration polled.)
C13_EventsDrainedBeforeFrame ==
    pc \in {"run", "frame", "present"} => queue = <<>>

\* C14: the loop runs only with an image buffer that was returned, a
\* context that initialised without error and a save buffer whose
\* allocation succeeded: both pointers are non-null wherever the loop is.
C14_BuffersNonNullInLoop ==
    pc \in LoopPcs \cup {"closing"} =>
        /\ load.ptr = "live"
        /\ joypad \in [Lines -> {0, 1}]
        /\ rom # "null"
        /\ cart_ram # "null"

\* Everything but the framebuffer and the two records of the call (the
\* count of rows drawn, the source indexes read).
NotDrawn ==
    <<pc, argc, inputVars, load, winW, screenWidth, win, event, hostVars,
      directVars, memVars, errCount, errKind, resetCount, rPressCount,
      exitVars>>

\* The cells of row ln from column 0 up to column w, rows stride apart.
RowCells(ln, w, stride) == {stride * ln + x : x \in 0 .. w - 1}

\* A step that writes every cell of W, leaves the cells outside W as they
\* were and touches nothing else.
WritesExactly(W) ==
    /\ DOMAIN fb' = DOMAIN fb \cup W
    /\ \A o \in DOMAIN fb \ W : fb'[o] = fb[o]
    /\ UNCHANGED NotDrawn

\* C15 as stated: the call for row `line` writes exactly the cells at
\* offsets displayWidth * line + x for x in [0, displayWidth), displayWidth
\* being the cached screen width, and leaves every other cell and all
\* other state unchanged.
C15_WritesDisplayWidthCells ==
    [][DrawsLine =>
          WritesExactly(RowCells(firstRow + line, screenWidth, screenWidth))]_vars

\* C15 amended: the call for row `line` writes exactly the cells at
\* offsets displayWidth * line + x for x in [0, window width), the cached
\* screen width being the stride only, and leaves every other cell and
\* all other state unchanged.
C15_WritesWindowWidthCells ==
    [][DrawsLine =>
          WritesExactly(RowCells(firstRow + line, winW, screenWidth))]_vars

\* C15's case: row 1 was drawn on a screen wider than the window, so the
\* row starts one stride into the buffer and stops short of the stride.
C15_Witness ==
    /\ pc = "frame"
    /\ line = 1
    /\ firstRow = 1
    /\ screenWidth > winW
    /\ DOMAIN fb = screenWidth .. screenWidth + winW - 1

Min(a, b) == IF a < b THEN a ELSE b

\* C16 as stated: the renderer never reads the source row at an index at
\* or beyond its length, the columns read being bounded by the smaller of
\* the cached screen width and the logical width.
C16_ReadsBelowMinOfWidths ==
    /\ srcRead \subseteq Cols
    /\ \A x \in srcRead : x < Min(screenWidth, LcdWidth)

\* C16 amended: the renderer never reads the source row at an index at or
\* beyond its length, the columns read being those below the window
\* width, which is the logical width whatever the screen width.
C16_ReadsBelowWindowWidth ==
    /\ srcRead \subseteq Cols
    /\ srcRead # {} => srcRead = 0 .. winW - 1
    /\ win # "none" => winW = LcdWidth

\* C16's case: a row was drawn on a screen narrower than the window and
\* every column of the source row was read.
C16_Witness ==
    /\ pc = "frame"
    /\ line = 1
    /\ screenWidth < LcdWidth
    /\ srcRead = Cols

\* C17: a run-one-frame call that returns is followed by exactly one
\* presentation before the next check of the close request and the next
\* run-one-frame call; the scanline callbacks of a frame are over when it
\* is presented, and none runs outside a run-one-frame call.
C17_OnePresentationPerFrame ==
    [][/\ (pc = "frame" /\ pc' # "frame") =>
              \/ pc' = "present"
              \/ pc' = "exited" /\ errCount' = errCount + 1
              \/ pc' = "crashed"
       /\ (pc = "present" /\ pc' # "present") => pc' = "loop"
       /\ (pc' = "present" /\ pc # "present") => pc = "frame"
       /\ (pc' = "loop" /\ pc # "loop") => pc \in {"alloc", "present"}
       /\ (pc' = "frame" /\ pc # "frame") => pc = "run"
       /\ (pc' = "run" /\ pc # "run") => pc = "event"
       /\ (pc' = "event" /\ pc # "event") => pc = "loop"
       /\ (fb' # fb \/ srcRead' # srcRead \/ line' > line) =>
              pc = "frame" /\ pc' = "frame"]_vars

\* C17's case: a frame with a scanline callback has returned and has been
\* presented, and main is back at the loop condition with nothing else
\* having happened.
C17_Witness ==
    /\ pc = "loop"
    /\ fb # EmptyFb
    /\ nHostEv = 0
    /\ ~closeReq

\* C18: the close request is examined at the top of an iteration only.
\* One raised during event handling, run-one-frame or presentation does
\* not interrupt the iteration: the frame in progress is run and presented
\* before main leaves the loop.
C18_CloseSeenAtLoopTopOnly ==
    [][/\ (pc' = "closing" /\ pc # "closing") => pc = "loop" /\ closeReq
       /\ (closeReq /\ pc = "loop" /\ pc' # pc) => pc' = "closing"
       /\ (closeReq /\ pc = "event" /\ pc' # pc) => pc' = "run"
       /\ (closeReq /\ pc = "run" /\ pc' # pc) => pc' = "frame"
       /\ (closeReq /\ pc = "frame" /\ pc' # pc) =>
              \/ pc' = "present"
              \/ pc' = "exited" /\ errCount' = errCount + 1
              \/ pc' = "crashed"
       /\ (closeReq /\ pc = "present" /\ pc' # pc) => pc' = "loop"]_vars

\* C18's case: the close request was raised after the check at the top of
\* the iteration and the frame, scanline included, is about to be
\* presented all the same.
C18_Witness ==
    /\ pc = "present"
    /\ closeReq
    /\ fb # EmptyFb
    /\ event.type = "keyReleased"

\* C19: a step of the loop that does not handle a key-pressed or
\* key-released event (no event polled, or one of another type) leaves the
\* eight joypad lines and the two LCD flags unchanged; with no host event
\* since initialisation all eight lines are 1 however many frames ran.
C19_NoKeyEventNoChange ==
    [][/\ (pc \in LoopPcs /\ ~HandlesKeyEvent) => UNCHANGED directVars
       /\ (pc \in LoopPcs /\ nHostEv = 0) =>
              \A l \in Lines : joypad[l] = 1]_vars

\* C19's case: an event of another type was polled with a key already
\* held, a frame was run and presented, and every line is still 1.
C19_Witness ==
    /\ pc = "loop"
    /\ event.type = "other"
    /\ fb # EmptyFb
    /\ keys # {}
    /\ \A l \in Lines : joypad[l] = 1

\* C20: once the window reports a close request inside the loop, and no
\* fatal error is raised and every call of run-one-frame returns, the
\* process reaches the shutdown code and exits with success; the loop top
\* that follows the request leaves the loop, so no iteration is started
\* after the one in progress.
C20_CloseRequestEndsInSuccess ==
    /\ [][(closeReq /\ pc = "loop" /\ pc' # pc) => pc' = "closing"]_vars
    /\ (closeReq /\ pc \in LoopPcs) ~>
          \/ pc = "exited" /\ exitCode = "EXIT_SUCCESS" /\ exitLine = ExitClose
          \/ errCount > 0
          \/ pc = "crashed"

\* C20's case: the process exited with success on a close request raised
\* while host events were still waiting to be polled.
C20_Witness ==
    /\ pc = "exited"
    /\ exitCode = "EXIT_SUCCESS"
    /\ closeReq
    /\ queue # <<>>
    /\ fb # EmptyFb
====
